---- MODULE Spec2Model ----
(***************************************************************************)
(* Model of the SDN controller of src/main.py: the topology graph (a       *)
(* networkx Graph: nodes, insertion-ordered adjacency, link attributes),   *)
(* the per-switch flow tables and the active-flow list, with one action    *)
(* per controller operation.  The run starts at the freshly constructed    *)
(* controller, replays the calls of the __main__ block that build the      *)
(* example topology, and then takes the operations the command loop        *)
(* offers, with arguments drawn from small sets.                           *)
(***************************************************************************)
EXTENDS Integers, Sequences, FiniteSets, TLC

VARIABLES
    pc,            \* index of the next call of the __main__ script; past it, the command loop
    node_type,     \* topology.nodes: registered node -> its type attribute
    adj,           \* topology adjacency: node -> neighbours in insertion order
    link,          \* topology edges: {u, v} -> [bandwidth, utilization, available]
    flow_tables,   \* flow_tables: switch -> (flow id -> path of the action)
    active_flows,  \* active_flows: the list of flow records
    last,          \* the last call made on the controller and what it gave back
    before,        \* history: the controller's state when that call was made
    ops            \* number of calls made from the command loop

vars == <<pc, node_type, adj, link, flow_tables, active_flows, last, before, ops>>

\* the controller object: lines 9-11
ctrl ==
    [node_type |-> node_type, adj |-> adj, link |-> link,
     flow_tables |-> flow_tables, active_flows |-> active_flows]

state == <<node_type, adj, link, flow_tables, active_flows>>

(***************************************************************************)
(* Bounds and input sets.                                                  *)
(***************************************************************************)
MaxOps == 3

NodeIds == {"s1", "s2", "s3", "s4", "h1", "h2", "h3"}

DefaultBandwidth == 100

\* add_node arguments: a node not in the example topology, and a registered one
NodeArgs == { <<"h3", "host">>, <<"h1", "host">> }

\* add_link arguments: an existing link with its ends swapped, a self-loop,
\* a link to a node the example does not register, a shortcut across the ring
LinkArgs == { <<"s2", "s1">>, <<"s1", "s1">>, <<"h3", "s1">>, <<"s1", "s4">> }

\* remove_link / restore_link arguments
ToggleArgs ==
    { <<"s1", "s2">>, <<"s2", "s1">>, <<"s1", "s3">>, <<"h2", "s4">>, <<"h3", "s1">> }

\* end points given to compute_paths / inject_flow
FlowArgs ==
    { <<"h1", "h2">>, <<"s1", "s4">>, <<"h3", "h1">>, <<"h1", "h3">>, <<"s1", "s1">> }

Priorities == {0, 1, 2}

FlowBandwidths == {10}

\* add_link bandwidth: a link narrower than one flow of FlowBandwidths
LinkBandwidths == {5}

(***************************************************************************)
(* Helpers on the graph.                                                   *)
(***************************************************************************)
None == <<>>

Edge(u, v) == {u, v}

has_edge(L, u, v) == Edge(u, v) \in DOMAIN L

\* lines 44-45: the links whose available flag is set
available_edges(L) == {e \in DOMAIN L : L[e].available}

\* line 46: the nodes of the edge-induced subgraph
subgraph_nodes(L) == UNION available_edges(L)

\* as subgraph_adj, with the availability filter of lines 44-45 left out
subgraph_adj_unfiltered(A, E, v) == A[v]

\* neighbours of v in the subgraph view (E its edges), in the adjacency order
\* of the graph
subgraph_adj(A, E, v) == SelectSeq(A[v], LAMBDA w : Edge(v, w) \in E)

(***************************************************************************)
(* networkx.predecessor: breadth-first search from source recording, for   *)
(* every node reached, its level and its predecessors on shortest paths.   *)
(* seen[n] = -1 stands for "n not in seen" (and not in pred).              *)
(***************************************************************************)
Visit(st, v, w, level) ==
    IF st.seen[w] = -1
    THEN [seen |-> [st.seen EXCEPT ![w] = level],
          pred |-> [st.pred EXCEPT ![w] = <<v>>],
          nextlevel |-> Append(st.nextlevel, w)]
    ELSE IF st.seen[w] = level
         THEN [st EXCEPT !.pred[w] = Append(@, v)]
         ELSE st

RECURSIVE ScanNeighbours(_, _, _, _)
ScanNeighbours(st, v, nbrs, level) ==
    IF nbrs = <<>> THEN st
    ELSE ScanNeighbours(Visit(st, v, Head(nbrs), level), v, Tail(nbrs), level)

RECURSIVE ScanLevel(_, _, _, _, _)
ScanLevel(A, E, st, thislevel, level) ==
    IF thislevel = <<>> THEN st
    ELSE ScanLevel(A, E,
                   ScanNeighbours(st, Head(thislevel),
                                  subgraph_adj(A, E, Head(thislevel)), level),
                   Tail(thislevel), level)

RECURSIVE Levels(_, _, _, _)
Levels(A, E, st, level) ==
    IF st.nextlevel = <<>> THEN st
    ELSE Levels(A, E,
                ScanLevel(A, E, [st EXCEPT !.nextlevel = <<>>],
                          st.nextlevel, level + 1),
                level + 1)

predecessor(A, E, source) ==
    Levels(A, E,
           [seen |-> [n \in NodeIds |-> IF n = source THEN 0 ELSE -1],
            pred |-> [n \in NodeIds |-> <<>>],
            nextlevel |-> <<source>>],
           0)

(***************************************************************************)
(* networkx._build_paths_from_predecessors: depth-first walk from the      *)
(* target back along the predecessor lists; a path is produced each time   *)
(* the walk stands on the source.  BuildPaths gives the paths from source  *)
(* to node in the order the walk produces them; onstack is the walk's      *)
(* `seen` set (the nodes on its stack).                                    *)
(***************************************************************************)
RECURSIVE AppendAll(_, _)
AppendAll(paths, node) ==
    IF paths = <<>> THEN <<>>
    ELSE <<Append(Head(paths), node)>> \o AppendAll(Tail(paths), node)

RECURSIVE BuildPaths(_, _, _, _)
RECURSIVE BuildVia(_, _, _, _, _)
BuildVia(pred, source, node, onstack, i) ==
    IF i > Len(pred[node]) THEN <<>>
    ELSE LET next == pred[node][i]
             through == IF next \in onstack THEN <<>>
                        ELSE AppendAll(BuildPaths(pred, source, next,
                                                  onstack \cup {next}), node)
         IN  through \o BuildVia(pred, source, node, onstack, i + 1)

BuildPaths(pred, source, node, onstack) ==
    (IF node = source THEN << <<node>> >> ELSE <<>>)
        \o BuildVia(pred, source, node, onstack, 1)

\* The one element of a singleton set; used to evaluate a value once.
The(S) == CHOOSE x \in S : TRUE

\* line 50: list(nx.all_shortest_paths(subgraph, src, dst)), with what it raises
all_shortest_paths(A, L, src, dst) ==
    IF src \notin subgraph_nodes(L)
    THEN [raised |-> "NodeNotFound", paths |-> <<>>]
    ELSE The({ IF st.seen[dst] = -1
               THEN [raised |-> "NetworkXNoPath", paths |-> <<>>]
               ELSE [raised |-> "",
                     paths |-> BuildPaths(st.pred, src, dst, {dst})]
               : st \in {predecessor(A, available_edges(L), src)} })

(***************************************************************************)
(* _path_utilization and the selection policy of compute_paths.            *)
(***************************************************************************)
RECURSIVE PathUtilFrom(_, _, _)
PathUtilFrom(L, path, i) ==
    IF i >= Len(path) THEN 0
    ELSE L[Edge(path[i], path[i + 1])].utilization + PathUtilFrom(L, path, i + 1)

\* lines 62-68
path_utilization(L, path) == PathUtilFrom(L, path, 1)

\* Python's min(seq, key=...): the first element whose key is minimal
RECURSIVE MinFrom(_, _, _, _)
MinFrom(L, paths, best, i) ==
    IF i > Len(paths) THEN best
    ELSE MinFrom(L, paths,
                 IF path_utilization(L, paths[i]) < path_utilization(L, best)
                 THEN paths[i] ELSE best,
                 i + 1)

\* as min_by_utilization, with the key of min() forgotten
min_without_key(L, paths) == paths[1]

min_by_utilization(L, paths) == MinFrom(L, paths, paths[1], 2)

FirstTwo(paths) == SubSeq(paths, 1, IF Len(paths) < 2 THEN Len(paths) ELSE 2)

\* as select_paths, with the load-balancing branch putting the least
\* utilized path first
select_paths_least_first(L, all_paths, priority) ==
    IF priority > 0
    THEN <<min_by_utilization(L, all_paths)>>
    ELSE FirstTwo(<<min_by_utilization(L, all_paths)>>
                  \o SelectSeq(all_paths,
                               LAMBDA q : q # min_by_utilization(L, all_paths)))

\* lines 52-57: the selection among the shortest paths found
select_paths(L, all_paths, priority) ==
    IF priority > 0
    THEN <<min_by_utilization(L, all_paths)>>
    ELSE FirstTwo(all_paths)

\* lines 38-60: outcome "return" with the returned list, or the exception
\* that leaves the function
compute_paths(A, L, src, dst, priority) ==
    The({ IF found.raised = "NetworkXNoPath"
          THEN [outcome |-> "return", paths |-> <<>>]
          ELSE IF found.raised # ""
               THEN [outcome |-> found.raised, paths |-> <<>>]
               ELSE [outcome |-> "return",
                     paths |-> select_paths(L, found.paths, priority)]
          : found \in {all_shortest_paths(A, L, src, dst)} })

(***************************************************************************)
(* State changes of the operations.                                        *)
(***************************************************************************)
\* line 21: topology.add_node(node_id, type=node_type)
add_node_types(T, n, t) ==
    [m \in DOMAIN T \cup {n} |-> IF m = n THEN t ELSE T[m]]

\* add_edge registers a missing endpoint without attributes
add_edge_types(T, u, v) ==
    [m \in DOMAIN T \cup {u, v} |-> IF m \in DOMAIN T THEN T[m] ELSE "none"]

\* add_edge appends to an adjacency list only when the neighbour is new
AddNbr(s, w) == IF \E i \in 1..Len(s) : s[i] = w THEN s ELSE Append(s, w)

add_edge_adj(A, u, v) ==
    [n \in NodeIds |->
        IF n = u /\ n = v THEN AddNbr(A[n], n)
        ELSE IF n = u THEN AddNbr(A[n], v)
        ELSE IF n = v THEN AddNbr(A[n], u)
        ELSE A[n]]

\* lines 25-26: the attributes given overwrite those of an existing link
add_edge_link(L, u, v, bw) ==
    [e \in DOMAIN L \cup {Edge(u, v)} |->
        IF e = Edge(u, v)
        THEN [bandwidth |-> bw, utilization |-> 0, available |-> TRUE]
        ELSE L[e]]

\* as set_available, flipping the flag instead of setting it
set_available_flipped(L, u, v, flag) ==
    IF has_edge(L, u, v)
    THEN [L EXCEPT ![Edge(u, v)].available = ~@]
    ELSE L

\* as set_available, without the has_edge guard: the link is created
set_available_unguarded(L, u, v, flag) ==
    [e \in DOMAIN L \cup {Edge(u, v)} |->
        IF e = Edge(u, v)
        THEN [bandwidth |-> IF e \in DOMAIN L THEN L[e].bandwidth
                            ELSE DefaultBandwidth,
              utilization |-> IF e \in DOMAIN L THEN L[e].utilization ELSE 0,
              available |-> flag]
        ELSE L[e]]

\* as set_available, a failed link also losing its utilization
set_available_cleared(L, u, v, flag) ==
    IF has_edge(L, u, v)
    THEN [L EXCEPT ![Edge(u, v)].available = flag,
                   ![Edge(u, v)].utilization = IF flag THEN @ ELSE 0]
    ELSE L

\* lines 30-31 and 35-36
set_available(L, u, v, flag) ==
    IF has_edge(L, u, v)
    THEN [L EXCEPT ![Edge(u, v)].available = flag]
    ELSE L

\* lines 93-95
RECURSIVE AddUtilFrom(_, _, _, _)
AddUtilFrom(L, path, bw, i) ==
    IF i >= Len(path) THEN L
    ELSE AddUtilFrom([L EXCEPT ![Edge(path[i], path[i + 1])].utilization = @ + bw],
                     path, bw, i + 1)

\* as update_utilization, starting one hop late
update_utilization_late(L, path, bw) == AddUtilFrom(L, path, bw, 2)

update_utilization(L, path, bw) == AddUtilFrom(L, path, bw, 1)

\* as flow_id_of, numbering by the calls made instead of the flows recorded
flow_id_of_calls(src, dst, flows) == <<src, dst, ops>>

\* as flow_id_of, without the sequence index
flow_id_of_unnumbered(src, dst, flows) == <<src, dst, 0>>

\* line 98: f"{src}-{dst}-{len(self.active_flows)}", kept as its three fields
flow_id_of(src, dst, flows) == <<src, dst, Len(flows)>>

\* line 72
install_flow(FT, switch_id, flow, path) ==
    [FT EXCEPT ![switch_id] =
        [f \in DOMAIN @ \cup {flow} |-> IF f = flow THEN path ELSE @[f]]]

\* lines 99-100 and 103-104: for switch in path[1:-1]
RECURSIVE InstallFrom(_, _, _, _)
InstallFrom(FT, flow, path, i) ==
    IF i >= Len(path) THEN FT
    ELSE InstallFrom(install_flow(FT, path[i], flow, path), flow, path, i + 1)

\* as install_path, with the first end point not skipped
install_path_from_src(FT, flow, path) == InstallFrom(FT, flow, path, 1)

install_path(FT, flow, path) == InstallFrom(FT, flow, path, 2)

NoCall ==
    [op |-> "init", a |-> "", b |-> "", priority |-> 0, bandwidth |-> 0,
     outcome |-> "return", paths |-> <<>>, flow_id |-> None]

Call(op, a, b, priority, bandwidth, outcome, paths, fid) ==
    [op |-> op, a |-> a, b |-> b, priority |-> priority, bandwidth |-> bandwidth,
     outcome |-> outcome, paths |-> paths, flow_id |-> fid]

(***************************************************************************)
(* The controller's operations.                                            *)
(***************************************************************************)
\* lines 19-21
add_node(n, t) ==
    /\ node_type' = add_node_types(node_type, n, t)
    /\ UNCHANGED <<adj, link, flow_tables, active_flows>>
    /\ last' = Call("add_node", n, t, 0, 0, "return", <<>>, None)

\* lines 23-26
add_link(u, v, bw) ==
    /\ node_type' = add_edge_types(node_type, u, v)
    /\ adj' = add_edge_adj(adj, u, v)
    /\ link' = add_edge_link(link, u, v, bw)
    /\ UNCHANGED <<flow_tables, active_flows>>
    /\ last' = Call("add_link", u, v, 0, bw, "return", <<>>, None)

\* lines 28-31
remove_link(u, v) ==
    /\ link' = set_available(link, u, v, FALSE)
    /\ UNCHANGED <<node_type, adj, flow_tables, active_flows>>
    /\ last' = Call("remove_link", u, v, 0, 0, "return", <<>>, None)

\* lines 33-36
restore_link(u, v) ==
    /\ link' = set_available(link, u, v, TRUE)
    /\ UNCHANGED <<node_type, adj, flow_tables, active_flows>>
    /\ last' = Call("restore_link", u, v, 0, 0, "return", <<>>, None)

\* lines 38-60, called on its own
compute_paths_call(src, dst, priority) ==
    \E r \in {compute_paths(adj, link, src, dst, priority)} :
        /\ UNCHANGED state
        /\ last' = Call("compute_paths", src, dst, priority, 0,
                        r.outcome, r.paths, None)

\* lines 85-90
backup_of(paths, priority) ==
    IF priority > 1 /\ Len(paths) > 1 THEN paths[2] ELSE None

\* as inject_no_path, with the flow recorded before the path check
inject_no_path_recorded(src, dst, priority, bandwidth, r) ==
    /\ active_flows' = Append(active_flows,
           [id |-> flow_id_of(src, dst, active_flows), src |-> src, dst |-> dst,
            primary_path |-> None, backup_path |-> None,
            bandwidth |-> bandwidth, priority |-> priority])
    /\ UNCHANGED <<node_type, adj, link, flow_tables>>
    /\ last' = Call("inject_flow", src, dst, priority, bandwidth,
                    r.outcome, r.paths, None)

\* lines 81-83, and an exception of compute_paths leaving inject_flow
inject_no_path(src, dst, priority, bandwidth, r) ==
    /\ UNCHANGED state
    /\ last' = Call("inject_flow", src, dst, priority, bandwidth,
                    r.outcome, r.paths, None)

\* lines 85-116
inject_admit(src, dst, priority, bandwidth, paths) ==
    LET primary_path == paths[1]
        backup_path == backup_of(paths, priority)
        flow_id == flow_id_of(src, dst, active_flows)
        FT1 == install_path(flow_tables, flow_id, primary_path)
        FT2 == IF backup_path # None
               THEN install_path(FT1, flow_id, backup_path)
               ELSE FT1
    IN  /\ link' = update_utilization(link, primary_path, bandwidth)
        /\ flow_tables' = FT2
        /\ active_flows' = Append(active_flows,
               [id |-> flow_id, src |-> src, dst |-> dst,
                primary_path |-> primary_path,
                backup_path |-> backup_path,
                bandwidth |-> bandwidth, priority |-> priority])
        /\ UNCHANGED <<node_type, adj>>
        /\ last' = Call("inject_flow", src, dst, priority, bandwidth,
                        "return", paths, flow_id)

\* as inject_flow, the path decided on the links as they were one call
\* earlier (a decision that another call overtook)
inject_flow_stale(src, dst, priority, bandwidth) ==
    \E r \in {compute_paths(adj, before.link, src, dst, priority)} :
        IF r.outcome # "return" \/ r.paths = <<>>
        THEN inject_no_path(src, dst, priority, bandwidth, r)
        ELSE inject_admit(src, dst, priority, bandwidth, r.paths)

\* as inject_flow, with admission refused when a link of the path would
\* exceed its bandwidth
inject_flow_capped(src, dst, priority, bandwidth) ==
    \E r \in {compute_paths(adj, link, src, dst, priority)} :
        IF \/ r.outcome # "return"
           \/ r.paths = <<>>
           \/ \E k \in 1..(Len(r.paths[1]) - 1) :
                 link[Edge(r.paths[1][k], r.paths[1][k + 1])].utilization + bandwidth
                    > link[Edge(r.paths[1][k], r.paths[1][k + 1])].bandwidth
        THEN inject_no_path(src, dst, priority, bandwidth, r)
        ELSE inject_admit(src, dst, priority, bandwidth, r.paths)

\* lines 74-116
inject_flow(src, dst, priority, bandwidth) ==
    \E r \in {compute_paths(adj, link, src, dst, priority)} :
        IF r.outcome # "return" \/ r.paths = <<>>
        THEN inject_no_path(src, dst, priority, bandwidth, r)
        ELSE inject_admit(src, dst, priority, bandwidth, r.paths)

(***************************************************************************)
(* The __main__ block (lines 205-223): construction, the example topology, *)
(* then the command loop.                                                  *)
(***************************************************************************)
Script ==
    << <<"add_node", "s1">>, <<"add_node", "s2">>, <<"add_node", "s3">>,
       <<"add_node", "s4">>, <<"add_node", "h1">>, <<"add_node", "h2">>,
       <<"add_link", "s1", "s2">>, <<"add_link", "s1", "s3">>,
       <<"add_link", "s2", "s4">>, <<"add_link", "s3", "s4">>,
       <<"add_link", "h1", "s1">>, <<"add_link", "h2", "s4">> >>

SetupLen == Len(Script)

\* lines 7-12
Init ==
    /\ pc = 1
    /\ node_type = <<>>
    /\ adj = [n \in NodeIds |-> <<>>]
    /\ link = <<>>
    /\ flow_tables = [n \in NodeIds |-> <<>>]
    /\ active_flows = <<>>
    /\ last = NoCall
    /\ before = ctrl
    /\ ops = 0

\* lines 209-221
Setup ==
    /\ pc \in 1..SetupLen
    /\ IF Script[pc][1] = "add_node"
       THEN add_node(Script[pc][2], "switch")
       ELSE add_link(Script[pc][2], Script[pc][3], DefaultBandwidth)
    /\ pc' = pc + 1
    /\ before' = ctrl
    /\ UNCHANGED ops

InCli ==
    /\ pc > SetupLen
    /\ ops < MaxOps
    /\ ops' = ops + 1
    /\ before' = ctrl
    /\ UNCHANGED pc

AddNode == InCli /\ \E p \in NodeArgs : add_node(p[1], p[2])

AddLink == InCli /\ \E p \in LinkArgs, bw \in LinkBandwidths : add_link(p[1], p[2], bw)

RemoveLink == InCli /\ \E p \in ToggleArgs : remove_link(p[1], p[2])

RestoreLink == InCli /\ \E p \in ToggleArgs : restore_link(p[1], p[2])

ComputePaths ==
    InCli /\ \E p \in FlowArgs, pr \in Priorities : compute_paths_call(p[1], p[2], pr)

InjectFlow ==
    InCli /\ \E p \in FlowArgs, pr \in Priorities, bw \in FlowBandwidths :
                inject_flow(p[1], p[2], pr, bw)

Next ==
    \/ Setup
    \/ AddNode
    \/ AddLink
    \/ RemoveLink
    \/ RestoreLink
    \/ ComputePaths
    \/ InjectFlow

Spec == Init /\ [][Next]_vars

(***************************************************************************)
(* Notions the properties are stated with, defined apart from the search   *)
(* of compute_paths.                                                       *)
(***************************************************************************)
\* the nodes reachable from S over the edges E
RECURSIVE Reach(_, _)
Reach(E, S) ==
    LET T == S \cup {w \in NodeIds : \E e \in E : w \in e /\ e \cap S # {}}
    IN  IF T = S THEN S ELSE Reach(E, T)

\* u and v are nodes of the live subgraph of L and a path joins them
Connected(L, u, v) ==
    /\ u \in subgraph_nodes(L)
    /\ v \in subgraph_nodes(L)
    /\ v \in Reach(available_edges(L), {u})

\* every hop of path is a link of L whose available flag is set
IsLivePath(L, path) ==
    \A k \in 1..(Len(path) - 1) :
        /\ has_edge(L, path[k], path[k + 1])
        /\ L[Edge(path[k], path[k + 1])].available

\* the number of hops of a shortest path from a node of S to v over the
\* edges E, counting from k; -1 when there is none
RECURSIVE HopsFrom(_, _, _, _)
HopsFrom(E, S, v, k) ==
    LET T == S \cup {w \in NodeIds : \E e \in E : w \in e /\ e \cap S # {}}
    IN  IF v \in S THEN k
        ELSE IF T = S THEN -1
        ELSE HopsFrom(E, T, v, k + 1)

Dist(L, u, v) ==
    IF u \in subgraph_nodes(L) /\ v \in subgraph_nodes(L)
    THEN HopsFrom(available_edges(L), {u}, v, 0)
    ELSE -1

\* the paths of P, each extended by one live hop that brings it nearer to v
Extend(L, P, v) ==
    UNION { { Append(q, w) :
                w \in { x \in NodeIds :
                          /\ Edge(q[Len(q)], x) \in available_edges(L)
                          /\ Dist(L, x, v) >= 0
                          /\ Dist(L, x, v) = Dist(L, q[Len(q)], v) - 1 } }
            : q \in P }

RECURSIVE ExtendTimes(_, _, _, _)
ExtendTimes(L, P, v, n) ==
    IF n = 0 THEN P ELSE ExtendTimes(L, Extend(L, P, v), v, n - 1)

\* the set of all hop-count-shortest paths from u to v in the live subgraph
AllShortest(L, u, v) ==
    IF Dist(L, u, v) < 0 THEN {}
    ELSE ExtendTimes(L, {<<u>>}, v, Dist(L, u, v))

PathEdges(path) == { Edge(path[k], path[k + 1]) : k \in 1..(Len(path) - 1) }

Interior(path) == { path[k] : k \in 2..(Len(path) - 1) }

Range(seq) == { seq[k] : k \in 1..Len(seq) }

\* two shortest paths from u to v that share no interior node
TwoDisjointShortest(L, u, v) ==
    \E p, q \in AllShortest(L, u, v) :
        p # q /\ Interior(p) \cap Interior(q) = {}

\* the links of the example topology (lines 216-221)
ExampleEdges ==
    { {"s1", "s2"}, {"s1", "s3"}, {"s2", "s4"}, {"s3", "s4"},
      {"h1", "s1"}, {"h2", "s4"} }

PathCall == last.op \in {"compute_paths", "inject_flow"}

(***************************************************************************)
(* C1: after any sequence of operations, every path compute_paths returns  *)
(* runs only over links whose available flag is set in the current state.  *)
(***************************************************************************)
C1_OnlyAvailableLinks ==
    last.op = "compute_paths" =>
        \A i \in 1..Len(last.paths) : IsLivePath(link, last.paths[i])

\* compute_paths returned a path while a link was down whose availability
\* would have changed the answer
C1_Witness ==
    /\ last.op = "compute_paths"
    /\ last.paths # <<>>
    /\ \E e \in DOMAIN link :
          /\ ~link[e].available
          /\ compute_paths(adj, [link EXCEPT ![e].available = TRUE],
                           last.a, last.b, last.priority).paths # last.paths

(***************************************************************************)
(* C2: compute_paths returns the empty list, raising nothing, whenever src *)
(* or dst is not in the live subgraph or no path joins them, and           *)
(* inject_flow then ends without a flow and without an error.              *)
(***************************************************************************)
C2_NoPathIsEmptyReturn ==
    (PathCall /\ ~Connected(before.link, last.a, last.b)) =>
        (last.outcome = "return" /\ last.paths = <<>> /\ last.flow_id = None)

(***************************************************************************)
(* C3: inject_flow between end points that are not connected in the live   *)
(* subgraph leaves the whole controller state as it was.                   *)
(***************************************************************************)
C3_NoPathNoMutation ==
    (last.op = "inject_flow" /\ ~Connected(before.link, last.a, last.b)) =>
        ctrl = before

\* inject_flow found both end points in the live subgraph and no path
C3_Witness ==
    /\ last.op = "inject_flow"
    /\ last.a \in subgraph_nodes(before.link)
    /\ last.b \in subgraph_nodes(before.link)
    /\ ~Connected(before.link, last.a, last.b)
    /\ last.outcome = "return"


(***************************************************************************)
(* C4: inject_flow with priority 2 and bandwidth b, when two disjoint      *)
(* shortest paths are available, adds b to the links of the primary path   *)
(* only, records a backup path, and installs entries for the flow on the   *)
(* interior switches of both paths.                                        *)
(***************************************************************************)
C4_BackupForCritical ==
    (/\ last.op = "inject_flow"
     /\ last.priority = 2
     /\ TwoDisjointShortest(before.link, last.a, last.b)) =>
        /\ last.flow_id # None
        /\ Len(active_flows) = Len(before.active_flows) + 1
        /\ LET f == active_flows[Len(active_flows)]
           IN  /\ f.backup_path # None
               /\ f.backup_path # f.primary_path
               /\ \A e \in DOMAIN link :
                     link[e].utilization =
                        before.link[e].utilization
                        + (IF e \in PathEdges(f.primary_path)
                           THEN last.bandwidth ELSE 0)
               /\ \A sw \in Interior(f.primary_path) \cup Interior(f.backup_path) :
                     f.id \in DOMAIN flow_tables[sw]

(***************************************************************************)
(* C5: for priority > 0 and connected end points compute_paths returns     *)
(* exactly one path: a hop-count-shortest path of the live subgraph whose  *)
(* summed utilization is least among all of them, the first such in the    *)
(* order of the search; and the call changes no state.                     *)
(***************************************************************************)
C5_LeastUtilizedShortest ==
    (/\ last.op = "compute_paths"
     /\ last.priority > 0
     /\ Connected(before.link, last.a, last.b)) =>
        LET all == all_shortest_paths(before.adj, before.link, last.a, last.b).paths
            S == AllShortest(before.link, last.a, last.b)
        IN  /\ last.outcome = "return"
            /\ Len(last.paths) = 1
            /\ last.paths[1] \in S
            /\ \A q \in S : path_utilization(before.link, q)
                              >= path_utilization(before.link, last.paths[1])
            /\ Range(all) = S
            /\ \E k \in 1..Len(all) :
                  /\ all[k] = last.paths[1]
                  /\ \A j \in 1..(k - 1) :
                        path_utilization(before.link, all[j])
                           > path_utilization(before.link, all[k])
            /\ ctrl = before

\* the least utilized shortest path was not the first one of the search
C5_Witness ==
    /\ last.op = "compute_paths"
    /\ last.priority > 0
    /\ Connected(before.link, last.a, last.b)
    /\ Cardinality(AllShortest(before.link, last.a, last.b)) > 1
    /\ last.paths # <<>>
    /\ last.paths[1] #
          all_shortest_paths(before.adj, before.link, last.a, last.b).paths[1]

C7_FlowIdentifiers ==
    /\ \A i \in 1..Len(active_flows) :
          active_flows[i].id =
             <<active_flows[i].src, active_flows[i].dst, i - 1>>
    /\ \A i, j \in 1..Len(active_flows) :
          i # j => active_flows[i].id # active_flows[j].id
    /\ (last.op = "inject_flow" /\ last.flow_id = None) =>
          active_flows = before.active_flows
    /\ (last.op = "inject_flow" /\ last.flow_id # None) =>
          /\ Len(active_flows) = Len(before.active_flows) + 1
          /\ last.flow_id = <<last.a, last.b, Len(before.active_flows)>>
          /\ active_flows[Len(active_flows)].id = last.flow_id

\* the second flow is admitted by the third call of the command loop
C7_Witness ==
    /\ ops = 3
    /\ last.op = "inject_flow"
    /\ last.flow_id # None
    /\ last.flow_id[3] = 1
    /\ Len(active_flows) = 2

(***************************************************************************)
(* C8: on the example topology inject_flow('h1','h2',0,10) records a       *)
(* primary path of 4 hops from h1 over s1 and s4 to h2 and adds 10 to each *)
(* of its links and to no other; with the link s1-s2 failed,               *)
(* compute_paths('h1','h2',0) returns the path h1-s1-s3-s4-h2 alone.       *)
(***************************************************************************)
C8_ExampleScenario ==
    /\ (/\ ops = 1
        /\ last.op = "inject_flow"
        /\ last.a = "h1" /\ last.b = "h2"
        /\ last.priority = 0 /\ last.bandwidth = 10) =>
          /\ Len(active_flows) = 1
          /\ LET p == active_flows[1].primary_path
             IN  /\ Len(p) = 5
                 /\ p[1] = "h1" /\ p[2] = "s1" /\ p[4] = "s4" /\ p[5] = "h2"
                 /\ \A e \in DOMAIN link :
                       link[e].utilization = (IF e \in PathEdges(p) THEN 10 ELSE 0)
    /\ (/\ last.op = "compute_paths"
        /\ last.a = "h1" /\ last.b = "h2" /\ last.priority = 0
        /\ DOMAIN before.link = ExampleEdges
        /\ \A e \in ExampleEdges :
              before.link[e].available = (e # {"s1", "s2"})) =>
          /\ last.outcome = "return"
          /\ last.paths = << <<"h1", "s1", "s3", "s4", "h2">> >>

\* the scenario in full: the flow, the failure of s1-s2, the query
C8_Witness ==
    /\ ops = 3
    /\ last.op = "compute_paths"
    /\ last.a = "h1" /\ last.b = "h2" /\ last.priority = 0
    /\ Len(active_flows) = 1
    /\ active_flows[1].primary_path = <<"h1", "s1", "s2", "s4", "h2">>
    /\ active_flows[1].bandwidth = 10
    /\ ~link[{"s1", "s2"}].available
    /\ link[{"s1", "s2"}].utilization = 10
    /\ last.paths = << <<"h1", "s1", "s3", "s4", "h2">> >>

(***************************************************************************)
(* C9: remove_link on a link that is already unavailable and restore_link  *)
(* on one that is already available change nothing, and either call sets   *)
(* the flag of the link whichever way round its two nodes are given.       *)
(***************************************************************************)
C9_ToggleIdempotent ==
    /\ (/\ last.op = "remove_link"
        /\ has_edge(before.link, last.a, last.b)
        /\ ~before.link[Edge(last.a, last.b)].available) => ctrl = before
    /\ (/\ last.op = "restore_link"
        /\ has_edge(before.link, last.a, last.b)
        /\ before.link[Edge(last.a, last.b)].available) => ctrl = before
    /\ (/\ last.op \in {"remove_link", "restore_link"}
        /\ has_edge(before.link, last.b, last.a)) =>
          /\ link[Edge(last.a, last.b)].available = (last.op = "restore_link")
          /\ link[Edge(last.b, last.a)].available = (last.op = "restore_link")

\* remove_link on a link already failed, its nodes given the other way
\* round than add_link had them
C9_Witness ==
    /\ last.op = "remove_link"
    /\ last.a = "s2" /\ last.b = "s1"
    /\ has_edge(before.link, last.a, last.b)
    /\ ~before.link[Edge(last.a, last.b)].available

(***************************************************************************)
(* C10: remove_link and restore_link on a pair that is no link, its nodes  *)
(* registered or not, raise nothing and leave the whole state as it was.   *)
(***************************************************************************)
C10_UnknownLinkIgnored ==
    (/\ last.op \in {"remove_link", "restore_link"}
     /\ ~has_edge(before.link, last.a, last.b)) =>
        (ctrl = before /\ last.outcome = "return")

\* restore_link named a node that is not registered
C10_Witness ==
    /\ last.op = "restore_link"
    /\ ~has_edge(before.link, last.a, last.b)
    /\ last.a \notin DOMAIN before.node_type


(***************************************************************************)
(* C11: add_link registers each end point that is not yet a node with the  *)
(* type tag switch and leaves the tag of a registered end point alone, so  *)
(* every node always carries a type tag that is switch or host.            *)
(***************************************************************************)
C11_EndpointsTypedSwitch ==
    /\ \A n \in DOMAIN node_type : node_type[n] \in {"switch", "host"}
    /\ last.op = "add_link" =>
          \A n \in {last.a, last.b} :
              /\ n \in DOMAIN node_type
              /\ node_type[n] = (IF n \in DOMAIN before.node_type
                                 THEN before.node_type[n] ELSE "switch")

(***************************************************************************)
(* C12: inject_flow checks no capacity: it admits the flow whenever a path *)
(* joins src and dst in the live subgraph, whatever the bandwidth asked    *)
(* and the utilization of the links, so that a link's utilization can      *)
(* exceed its bandwidth.                                                   *)
(***************************************************************************)
C12_NoCapacityCheck ==
    (last.op = "inject_flow" /\ Connected(before.link, last.a, last.b)) =>
        /\ last.outcome = "return"
        /\ last.flow_id # None
        /\ Len(active_flows) = Len(before.active_flows) + 1
        /\ active_flows[Len(active_flows)].bandwidth = last.bandwidth

\* a flow was admitted over a link that it fills beyond its bandwidth
C12_Witness ==
    /\ last.op = "inject_flow"
    /\ last.flow_id # None
    /\ \E e \in PathEdges(active_flows[Len(active_flows)].primary_path) :
          link[e].utilization > link[e].bandwidth

(***************************************************************************)
(* C13: no operation lowers the utilization of an existing link, add_link  *)
(* on an existing link included, and only inject_flow changes it.          *)
(***************************************************************************)
C13_UtilizationMonotone ==
    \A e \in DOMAIN before.link :
        /\ e \in DOMAIN link
        /\ link[e].utilization >= before.link[e].utilization
        /\ last.op # "inject_flow" =>
              link[e].utilization = before.link[e].utilization

(***************************************************************************)
(* C14: the utilization of every link is the sum of the bandwidths of the  *)
(* active flows whose primary path runs over it, once per traversal, after *)
(* any interleaving of inject_flow with add_link, remove_link and          *)
(* restore_link.                                                           *)
(***************************************************************************)
Traversals(path, e) ==
    Cardinality({k \in 1..(Len(path) - 1) : Edge(path[k], path[k + 1]) = e})

RECURSIVE AssignedFrom(_, _, _)
AssignedFrom(flows, e, i) ==
    IF i > Len(flows) THEN 0
    ELSE flows[i].bandwidth * Traversals(flows[i].primary_path, e)
         + AssignedFrom(flows, e, i + 1)

C14_UtilizationAccounting ==
    \A e \in DOMAIN link : link[e].utilization = AssignedFrom(active_flows, e, 1)

(***************************************************************************)
(* C15: the topology is an undirected simple graph: every link joins two   *)
(* distinct registered nodes, also after add_link(a, a), and there is one  *)
(* link at most for an unordered pair of nodes.                            *)
(***************************************************************************)
C15_SimpleGraph ==
    /\ \A e \in DOMAIN link : Cardinality(e) = 2 /\ e \subseteq DOMAIN node_type
    /\ \A n \in NodeIds :
          /\ \A i, j \in 1..Len(adj[n]) : adj[n][i] = adj[n][j] => i = j
          /\ \A i \in 1..Len(adj[n]) :
                adj[n][i] # n /\ has_edge(link, n, adj[n][i])
    /\ \A e \in DOMAIN link : \A n \in e : \E i \in 1..Len(adj[n]) : {n, adj[n][i]} = e

(***************************************************************************)
(* C16: every active-flow record has a primary path of 2 nodes or more     *)
(* that starts at the flow's src and ends at its dst, also when the flow   *)
(* was injected with src = dst.                                            *)
(***************************************************************************)
C16_PrimaryPathShape ==
    \A i \in 1..Len(active_flows) :
        LET f == active_flows[i]
        IN  /\ Len(f.primary_path) >= 2
            /\ f.primary_path[1] = f.src
            /\ f.primary_path[Len(f.primary_path)] = f.dst

(***************************************************************************)
(* C17: flow tables and active flows agree: every entry of a switch under  *)
(* a flow id belongs to the active flow of that id, carries that flow's    *)
(* primary (or backup) path and sits on a node strictly inside that path;  *)
(* and every node strictly inside an active flow's primary path holds an   *)
(* entry under the flow's id with the primary path.                        *)
(***************************************************************************)
C17_TablesMatchFlows ==
    /\ \A sw \in NodeIds : \A fid \in DOMAIN flow_tables[sw] :
          \E i \in 1..Len(active_flows) :
              LET f == active_flows[i]
              IN  /\ f.id = fid
                  /\ flow_tables[sw][fid] \in {f.primary_path, f.backup_path}
                  /\ flow_tables[sw][fid] # None
                  /\ sw \in Interior(flow_tables[sw][fid])
    /\ \A i \in 1..Len(active_flows) :
          \A sw \in Interior(active_flows[i].primary_path) :
              /\ active_flows[i].id \in DOMAIN flow_tables[sw]
              /\ flow_tables[sw][active_flows[i].id] = active_flows[i].primary_path

\* two flows have entries on one switch
C17_Witness ==
    \E sw \in NodeIds :
        /\ Cardinality(DOMAIN flow_tables[sw]) = 2
        /\ \E i \in 1..Len(active_flows) : Len(active_flows[i].primary_path) = 5

(***************************************************************************)
(* C18: flow admission is one step: right after a successful inject_flow   *)
(* the new primary path is, in the state the call found, a path over       *)
(* available links of the least hop count and, for priority > 0, of the    *)
(* least utilization among those; the links of that state are changed by   *)
(* the flow's bandwidth on the path alone, so that a priority > 0          *)
(* injection sees the utilization its predecessor left.                    *)
(***************************************************************************)
C18_AtomicAdmission ==
    (last.op = "inject_flow" /\ last.flow_id # None) =>
        LET f == active_flows[Len(active_flows)]
            S == AllShortest(before.link, last.a, last.b)
        IN  /\ active_flows = Append(before.active_flows, f)
            /\ f.id = last.flow_id
            /\ IsLivePath(before.link, f.primary_path)
            /\ f.primary_path \in S
            /\ last.priority > 0 =>
                  \A q \in S : path_utilization(before.link, q)
                                >= path_utilization(before.link, f.primary_path)
            /\ DOMAIN link = DOMAIN before.link
            /\ \A e \in DOMAIN link :
                  /\ link[e].available = before.link[e].available
                  /\ link[e].bandwidth = before.link[e].bandwidth
                  /\ link[e].utilization =
                        before.link[e].utilization
                        + last.bandwidth * Traversals(f.primary_path, e)

\* two priority > 0 injections in a row between the same end points, the
\* second one routed round the links the first one loaded
C18_Witness ==
    /\ ops = 2
    /\ last.op = "inject_flow"
    /\ Len(active_flows) = 2
    /\ active_flows[1].priority > 0
    /\ active_flows[2].priority > 0
    /\ active_flows[1].src = active_flows[2].src
    /\ active_flows[1].dst = active_flows[2].dst
    /\ active_flows[1].primary_path # active_flows[2].primary_path

(***************************************************************************)
(* C19: remove_link and restore_link change the available flag of the link *)
(* named and nothing else: not the bandwidth or utilization of any link,   *)
(* not another link's flag, not the nodes, flow tables or active flows; a  *)
(* flow stays on its path when a link of it fails, and the link keeps the  *)
(* flow's utilization.                                                     *)
(***************************************************************************)
C19_ToggleFrame ==
    last.op \in {"remove_link", "restore_link"} =>
        /\ node_type = before.node_type
        /\ adj = before.adj
        /\ flow_tables = before.flow_tables
        /\ active_flows = before.active_flows
        /\ DOMAIN link = DOMAIN before.link
        /\ \A e \in DOMAIN link :
              /\ link[e].bandwidth = before.link[e].bandwidth
              /\ link[e].utilization = before.link[e].utilization
              /\ e # Edge(last.a, last.b) =>
                    link[e].available = before.link[e].available

\* remove_link failed a link that an active flow runs over
C19_Witness ==
    /\ last.op = "remove_link"
    /\ has_edge(link, last.a, last.b)
    /\ before.link[Edge(last.a, last.b)].available
    /\ ~link[Edge(last.a, last.b)].available
    /\ link[Edge(last.a, last.b)].utilization > 0
    /\ \E i \in 1..Len(active_flows) :
          Edge(last.a, last.b) \in PathEdges(active_flows[i].primary_path)

(***************************************************************************)
(* C20: the active-flow list only grows, by one record for each successful *)
(* inject_flow, and flow-table entries are written once: no operation      *)
(* changes or removes a record or an entry that exists, and inject_flow    *)
(* writes only keys that did not exist.                                    *)
(***************************************************************************)
C20_AppendOnlyWriteOnce ==
    /\ Len(active_flows) =
          Len(before.active_flows)
          + (IF last.op = "inject_flow" /\ last.flow_id # None THEN 1 ELSE 0)
    /\ SubSeq(active_flows, 1, Len(before.active_flows)) = before.active_flows
    /\ \A sw \in NodeIds : \A fid \in DOMAIN before.flow_tables[sw] :
          /\ fid \in DOMAIN flow_tables[sw]
          /\ flow_tables[sw][fid] = before.flow_tables[sw][fid]
    /\ \A sw \in NodeIds :
          \A fid \in DOMAIN flow_tables[sw] \ DOMAIN before.flow_tables[sw] :
              last.op = "inject_flow" /\ fid = last.flow_id
    /\ \A i \in 1..Len(active_flows) :
          \A j, k \in 1..Len(active_flows[i].primary_path) :
              active_flows[i].primary_path[j] = active_flows[i].primary_path[k]
                 => j = k

\* a second flow between the same end points was installed on a switch that
\* held an entry of the first, after some other call in between
C20_Witness ==
    /\ ops = 3
    /\ last.op = "inject_flow"
    /\ Len(active_flows) = 2
    /\ active_flows[1].src = active_flows[2].src
    /\ active_flows[1].dst = active_flows[2].dst
    /\ \E sw \in NodeIds :
          {active_flows[1].id, active_flows[2].id} \subseteq DOMAIN flow_tables[sw]

====
